---- MODULE Spec2Model ----
(***************************************************************************)
(* A model of the enumgen generator (package gen): the configuration       *)
(* validator Config.checkValid (src/gen/config.go) and the driver          *)
(* Config.Generate (gen.go, kept as src/unnamed/part_003).                  *)
(*                                                                         *)
(* One behaviour is one call of Generate on one Config.  checkValid is     *)
(* modelled statement by statement, one step per loop iteration, so that   *)
(* the order of its checks is observable.  Go strings are TLA+ strings and *)
(* prefix+name is string concatenation.                                    *)
(*                                                                         *)
(* Spec explores validation on configurations without texts and flags.     *)
(* GenSpec explores generation on one enumeration with texts and flags,    *)
(* and then a program that uses the generated type through its bindings,   *)
(* its constructor, Set and UnmarshalText; it also uses the types Size and *)
(* Count of the package testdata.  WidthSpec applies baseType to counts    *)
(* around its thresholds.                                                  *)
(***************************************************************************)
EXTENDS Integers, Sequences, FiniteSets, TLC

\* ------------------------------------------------------------------------
\* Bounds of the model and the strings configurations are drawn from.

MaxEnums == 2

MaxValues == 2

\* Package names: unset, a legal one, and one the Go parser rejects.
Packages == {"", "foo", "func"}

TypeNames == {"", "bar", "baz"}

Prefixes == {"", "A"}

ZeroNames == {"", "X"}

ValueNames == {"", "A", "X", "AX"}

SeqsUpTo(S, n) == UNION {[1..k -> S] : k \in 0..n}

\* ------------------------------------------------------------------------
\* The configuration types.

\* A Value defines a single enumerator: its Name and the Text of its label
\* (optional).  Doc is left out.
ValueOf(names, texts) == [Name : names, Text : texts]

\* An Enum defines an enumeration type, with the flags that ask for a
\* constructor, the flag.Value methods and the text marshaling methods.  The
\* documentation fields are left out.
EnumOf(types, prefixes, zeros, values, flags) ==
    [Type : types, Prefix : prefixes, Zero : zeros, Values : values,
     Constructor : flags, FlagValue : flags, TextMarshal : flags]

\* The values and enumerations that validation is explored on leave Text and
\* the flags unset: the validator reads neither.
Value == ValueOf(ValueNames, {""})

Enum == EnumOf(TypeNames, Prefixes, ZeroNames, SeqsUpTo(Value, MaxValues), {FALSE})

\* A Config specifies a collection of enumerations in a single package.
Config == [Package : Packages, Enum : SeqsUpTo(Enum, MaxEnums)]

\* The configurations that generation is explored on: one enumeration with
\* every combination of flags, whose labels repeat, differ in case only, or
\* spell the invalid marker.
Texts == {"", "x", "<invalid>"}

GenValue == ValueOf({"A", "X"}, Texts)

GenEnum == EnumOf({"bar"}, Prefixes, ZeroNames, SeqsUpTo(GenValue, MaxValues), BOOLEAN)

GenConfig == [Package : {"foo", "func"}, Enum : {<<e>> : e \in GenEnum}]

\* ------------------------------------------------------------------------
\* Errors.  msg is the fixed text of the message; the other fields are the
\* arguments that the format string interpolates ("" or 0 when it has none).

NoErr == [msg |-> "", enum |-> 0, type |-> "", value |-> 0, name |-> "", owner |-> ""]

ErrPackage == [NoErr EXCEPT !.msg = "package name not defined"]

ErrNoEnums == [NoErr EXCEPT !.msg = "no enumerations defined"]

\* Mutant: the loop index is reported as it is, 0-based.
ErrNoType_ZeroBased(i) == [NoErr EXCEPT !.msg = "type name not defined", !.enum = i]

\* "enum %d: type name not defined", i+1
ErrNoType(i) == [NoErr EXCEPT !.msg = "type name not defined", !.enum = i + 1]

\* "enum %d: duplicate type name %q", i+1, e.Type
ErrDupType(i, e) ==
    [NoErr EXCEPT !.msg = "duplicate type name", !.enum = i + 1, !.name = e.Type]

\* "enum %d: no enumerators defined", i+1
ErrNoValues(i) == [NoErr EXCEPT !.msg = "no enumerators defined", !.enum = i + 1]

\* "enum %q default %q duplicated in %q", e.Type, zero, valueSeen[zero]
ErrDupZero(e, zero, owner) ==
    [NoErr EXCEPT !.msg = "default duplicated in", !.type = e.Type,
                  !.name = zero, !.owner = owner]

\* "enum %q value %d: name not defined", e.Type, j+1
ErrNoName(e, j) ==
    [NoErr EXCEPT !.msg = "name not defined", !.type = e.Type, !.value = j + 1]

\* "enum %q value %d: name %q duplicated in %q", e.Type, j+1, v.Name, e.Type
ErrDupName(e, j, v) ==
    [NoErr EXCEPT !.msg = "name duplicated in", !.type = e.Type, !.value = j + 1,
                  !.name = v.Name, !.owner = e.Type]

\* "enum %q value %d: name %q duplicated in %q", e.Type, j+1, full, valueSeen[full]
ErrDupFull(e, j, full, owner) ==
    [NoErr EXCEPT !.msg = "name duplicated in", !.type = e.Type, !.value = j + 1,
                  !.name = full, !.owner = owner]

\* "go format: %w"
ErrFormat == [NoErr EXCEPT !.msg = "go format"]

\* An error returned by the io.Writer.
ErrWrite == [NoErr EXCEPT !.msg = "write failed"]

\* ------------------------------------------------------------------------
\* Go maps from string to string: a missing key reads as "".

EmptyMap == [k \in {} |-> ""]

Lookup(m, k) == IF k \in DOMAIN m THEN m[k] ELSE ""

Put(m, k, val) == [x \in (DOMAIN m) \cup {k} |-> IF x = k THEN val ELSE m[x]]

\* ------------------------------------------------------------------------
\* The decisions of checkValid.

\* zero := e.Prefix + e.Zero
ZeroId(e) == e.Prefix \o e.Zero

\* full := e.Prefix + v.Name
FullId(e, v) == e.Prefix \o v.Name

\* Mutant: the zero binding is never compared with the identifiers seen.
ZeroCollides_Never(seen, e) == FALSE

\* valueSeen[zero] != "" && valueSeen[zero] != e.Type
ZeroCollides(seen, e) ==
    /\ Lookup(seen, ZeroId(e)) # ""
    /\ Lookup(seen, ZeroId(e)) # e.Type

\* Mutant: the zero binding is checked but not recorded.
RegisterZero_Skipped(seen, e) == seen

\* if zero := e.Prefix + e.Zero; e.Zero != "" { ...; valueSeen[zero] = e.Type }
RegisterZero(seen, e) ==
    IF e.Zero # "" THEN Put(seen, ZeroId(e), e.Type) ELSE seen

\* Mutant: the values list is looked at before the type name.
EnumError_ValuesFirst(n, e, types, seen) ==
    IF Len(e.Values) = 0 THEN ErrNoValues(n)
    ELSE IF e.Type = "" THEN ErrNoType(n)
    ELSE IF e.Type \in types THEN ErrDupType(n, e)
    ELSE IF e.Zero # "" /\ ZeroCollides(seen, e)
         THEN ErrDupZero(e, ZeroId(e), Lookup(seen, ZeroId(e)))
    ELSE NoErr

\* The checks of one enumeration before its values are examined, in the
\* order of the code: the error returned, or NoErr.
EnumError(n, e, types, seen) ==
    IF e.Type = "" THEN ErrNoType(n)
    ELSE IF e.Type \in types THEN ErrDupType(n, e)
    ELSE IF Len(e.Values) = 0 THEN ErrNoValues(n)
    ELSE IF e.Zero # "" /\ ZeroCollides(seen, e)
         THEN ErrDupZero(e, ZeroId(e), Lookup(seen, ZeroId(e)))
    ELSE NoErr

\* Mutant: the zero name is exempt from the check of repeated names too.
NameDuplicated_ExceptZero(names, e, v) == v.Name \in names /\ v.Name # e.Zero

\* thisName.Has(v.Name)
NameDuplicated(names, e, v) == v.Name \in names

\* Mutant: an identifier some enumeration already owns is never a collision.
ValueCollides_Never(seen, e, v) == FALSE

\* Mutant: no exemption for the enumeration's own zero name.
ValueCollides_NoExemption(seen, e, v) == Lookup(seen, FullId(e, v)) # ""

\* valueSeen[full] != "" &&
\*   (valueSeen[full] != e.Type || e.Zero == "" || e.Zero != v.Name)
ValueCollides(seen, e, v) ==
    /\ Lookup(seen, FullId(e, v)) # ""
    /\ \/ Lookup(seen, FullId(e, v)) # e.Type
       \/ e.Zero = ""
       \/ e.Zero # v.Name

\* Mutant: the error cites the bare name.
CollisionError_BareName(m, e, v, seen) ==
    ErrDupFull(e, m, v.Name, Lookup(seen, FullId(e, v)))

\* The error of the cross-enumeration collision: it cites full and the owner.
CollisionError(m, e, v, seen) ==
    ErrDupFull(e, m, FullId(e, v), Lookup(seen, FullId(e, v)))

\* Mutant: the name of an enumerator is not checked to be set.
ValueError_NameUnchecked(m, e, v, names, seen) ==
    IF NameDuplicated(names, e, v) THEN ErrDupName(e, m, v)
    ELSE IF ValueCollides(seen, e, v) THEN CollisionError(m, e, v, seen)
    ELSE NoErr

\* The checks of one enumerator, in the order of the code.
ValueError(m, e, v, names, seen) ==
    IF v.Name = "" THEN ErrNoName(e, m)
    ELSE IF NameDuplicated(names, e, v) THEN ErrDupName(e, m, v)
    ELSE IF ValueCollides(seen, e, v) THEN CollisionError(m, e, v, seen)
    ELSE NoErr

\* ------------------------------------------------------------------------
\* Emission.  The generated source is kept as its structure: the package
\* clause and, per enumeration, the type, the storage type, the label table
\* and the bindings of the var block, in the order they are printed.

\* A count of values as two limbs, hi * 2^16 + lo with lo < 2^16: the
\* threshold 1<<32 of baseType is not a number TLC represents.
Limbs(n) == [hi |-> n \div 65536, lo |-> n % 65536]

\* Mutant: the first threshold is taken inclusively.
widthOf_Inclusive(c) ==
    IF c.hi = 0 /\ c.lo <= 256 THEN "uint8"
    ELSE IF c.hi = 0 THEN "uint16"
    ELSE IF c.hi < 65536 THEN "uint32"
    ELSE "uint64"

\* The cases of baseType on a count c in limbs: n < 1<<8, n < 1<<16,
\* n < 1<<32, and the default.
widthOf(c) ==
    IF c.hi = 0 /\ c.lo < 256 THEN "uint8"
    ELSE IF c.hi = 0 THEN "uint16"
    ELSE IF c.hi < 65536 THEN "uint32"
    ELSE "uint64"

\* baseType returns the smallest unsigned integer type wide enough for n.
baseType(n) == widthOf(Limbs(n))

\* Mutant: the text of a value is ignored.
Label_NameOnly(v) == v.Name

\* The label of a value: its text when it has one, its name otherwise.
Label(v) == IF v.Text # "" THEN v.Text ELSE v.Name

\* Whether v is the entry of e.Values that re-declares the zero name of e.
IsZeroDecl(e, v) == e.Zero # "" /\ v.Name = e.Zero

\* The values of e that become enumerators: all but the re-declaration of its
\* zero name, which attaches its text to the zero value.
Enumerators(e) == SelectSeq(e.Values, LAMBDA v : ~IsZeroDecl(e, v))

\* The string at index 0 of the label table: the text of the re-declared zero
\* name when it has one, the invalid marker otherwise.
ZeroLabel(e) ==
    LET decl == {k \in 1..Len(e.Values) :
                    IsZeroDecl(e, e.Values[k]) /\ e.Values[k].Text # ""}
    IN  IF decl = {} THEN "<invalid>"
        ELSE e.Values[CHOOSE k \in decl : \A l \in decl : k <= l].Text

\* The label table _str_T.
Labels(e) ==
    <<ZeroLabel(e)>> \o [k \in 1..Len(Enumerators(e)) |-> Label(Enumerators(e)[k])]

\* The name of the constructor; empty means it is not generated.
ParseFunc(e) ==
    IF e.Constructor THEN "New" \o e.Type
    ELSE IF e.FlagValue THEN "new" \o e.Type
    ELSE ""

\* The zero binding: Prefix+Zero = T{0}, printed when Zero is set.
ZeroBinding(e) ==
    IF e.Zero # "" THEN <<[name |-> ZeroId(e), index |-> 0]>> ELSE <<>>

\* Mutant: the enumerators are numbered from 0.
ValueBindings_FromZero(e) ==
    [k \in 1..Len(Enumerators(e)) |->
        [name |-> FullId(e, Enumerators(e)[k]), index |-> k - 1]]

\* One binding per enumerator: fullName = T{i+1}.
ValueBindings(e) ==
    [k \in 1..Len(Enumerators(e)) |->
        [name |-> FullId(e, Enumerators(e)[k]), index |-> k]]

\* Mutant: the zero binding is printed after the enumerators.
VarBlock_ZeroLast(e) == ValueBindings(e) \o ZeroBinding(e)

\* The bindings of the var block in the order they are printed: the zero
\* binding, then the enumerators.
VarBlock(e) == ZeroBinding(e) \o ValueBindings(e)

\* Enum.generate: the type with its storage type, the methods it is given,
\* the label table and the var block.  idx is the table _idx_T of explicit
\* indices, which this generator never prints.
EnumText(e) ==
    [type     |-> e.Type,
     base     |-> baseType(Len(e.Values)),
     parse    |-> ParseFunc(e),
     flag     |-> e.FlagValue,
     text     |-> e.TextMarshal,
     from     |-> FALSE,
     labels   |-> Labels(e),
     idx      |-> <<>>,
     bindings |-> VarBlock(e)]

\* The keys of the map imp after the loop over c.Enum.
Imports(c) ==
    UNION {IF c.Enum[k].FlagValue \/ c.Enum[k].TextMarshal THEN {"fmt", "strings"}
           ELSE IF c.Enum[k].Constructor THEN {"strings"}
           ELSE {} : k \in 1..Len(c.Enum)}

\* The orders in which a range loop may visit the keys of a map: all of them.
Orders(keys) ==
    {s \in [1..Cardinality(keys) -> keys] :
        \A a, b \in 1..Cardinality(keys) : a # b => s[a] # s[b]}

\* An empty bytes.Buffer.
NoText == [package |-> "", imports |-> <<>>, decls |-> <<>>, gofmt |-> FALSE]

\* The text Generate accumulates in buf before formatting, the import block
\* in the order imps in which the range loop visited the map.
Emitted(c, imps) ==
    [package |-> c.Package,
     imports |-> imps,
     decls   |-> [k \in 1..Len(c.Enum) |-> EnumText(c.Enum[k])],
     gofmt   |-> FALSE]

\* The strings of this model that the Go parser does not take as an identifier.
IsIdentifier(s) == s \notin {"", "func"}

\* format.Source parses the text: it fails unless every declared name is an
\* identifier.
FormatOK(text) ==
    /\ IsIdentifier(text.package)
    /\ \A k \in 1..Len(text.decls) :
          /\ IsIdentifier(text.decls[k].type)
          /\ \A b \in 1..Len(text.decls[k].bindings) :
                IsIdentifier(text.decls[k].bindings[b].name)

\* The import paths of this model in the order format.Source sorts them into.
ImportOrder == <<"fmt", "strings">>

\* format.Source returns the text in canonical layout, the import block sorted.
FormatSource(text) ==
    [text EXCEPT !.gofmt = TRUE,
                 !.imports = SelectSeq(ImportOrder,
                                 LAMBDA p : \E k \in 1..Len(text.imports) : text.imports[k] = p)]

\* Mutant: nothing is written when formatting failed.
Writes_NothingOnFailure(text) == IF FormatOK(text) THEN <<FormatSource(text)>> ELSE <<>>

\* The calls of w.Write that Generate makes after formatting: the formatted
\* source, or the unformatted buffer when formatting failed.
Writes(text) == IF FormatOK(text) THEN <<FormatSource(text)>> ELSE <<text>>

\* Mutant: the result of checkValid is ignored.
AfterCheck_AlwaysEmit(err) == "emit"

\* Where Generate continues after checkValid returned err.
AfterCheck(err) == IF err # NoErr THEN "done" ELSE "emit"

\* ------------------------------------------------------------------------
\* The generated code.  A generated type t is the record EnumText prints; a
\* value of the type is its stored index, the unexported field _T.

\* The Go compiler takes the formatted text when no name is declared twice and
\* every imported package is used: "strings" by the constructor, "fmt" by Set
\* and UnmarshalText.
Declared(text) ==
    [k \in 1..Len(text.decls) |->
        <<text.decls[k].type>>
        \o (IF text.decls[k].parse # "" THEN <<text.decls[k].parse>> ELSE <<>>)
        \o [b \in 1..Len(text.decls[k].bindings) |-> text.decls[k].bindings[b].name]]

Uses(decl, p) ==
    IF p = "strings" THEN decl.parse # "" ELSE decl.flag \/ decl.text

Compiles(text) ==
    /\ \A k, l \in 1..Len(text.decls) :
          \A a \in 1..Len(Declared(text)[k]), b \in 1..Len(Declared(text)[l]) :
             (k # l \/ a # b) => Declared(text)[k][a] # Declared(text)[l][b]
    /\ \A n \in 1..Len(text.imports) :
          \E k \in 1..Len(text.decls) : Uses(text.decls[k], text.imports[n])

\* Case folding on the strings of this model.
Lower(s) ==
    CASE s = "A" -> "a"
      [] s = "X" -> "x"
      [] s = "BAR" -> "bar"
      [] OTHER   -> s

\* strings.EqualFold
EqualFold(s, t) == Lower(s) = Lower(t)

\* The strings passed to the constructor, to Set and to UnmarshalText.
Inputs == {"", "A", "a", "X", "x", "<invalid>", "q", "foo", "BAR"}

\* The integers passed to TFromIndex.
Indexes == {-1, 0, 1, 2, 3, 4, 5, 10, 50}

\* Mutant: Index reports the stored index, whatever the index table says.
Index_Stored(t, v) == v

\* func (v T) Index() int: the stored index, or its entry in _idx_T.
Index(t, v) == IF t.idx = <<>> THEN v ELSE t.idx[v + 1]

\* Mutant: the zero value always prints as the invalid marker.
String_MarkerForZero(t, v) == IF v = 0 THEN "<invalid>" ELSE t.labels[v + 1]

\* func (v T) String() string { return _str_T[v._T] }
String(t, v) == t.labels[v + 1]

\* Mutant: the zero value counts as valid.
Valid_FromZero(t, v) == v >= 0 /\ v < Len(t.labels)

\* func (v T) Valid() bool { return v._T > 0 && int(v._T) < len(_str_T) }
Valid(t, v) == v > 0 /\ v < Len(t.labels)

\* "invalid value for T: %q", s
ErrInvalid(t, s) == [NoErr EXCEPT !.msg = "invalid value for", !.type = t.type, !.name = s]

\* The first i+1 for which the loop over _str_T[1:] finds opt equal to s, up
\* to case when fold is set and exactly otherwise, or 0.
FirstMatch(t, s, fold) ==
    LET hits == {n \in 1..(Len(t.labels) - 1) :
                    IF fold THEN EqualFold(t.labels[n + 1], s) ELSE t.labels[n + 1] = s}
    IN  IF hits = {} THEN 0 ELSE CHOOSE n \in hits : \A m \in hits : n <= m

\* Mutant: the constructor compares exactly.
Parse_Exact(t, s) == FirstMatch(t, s, FALSE)

\* func NewT(s string) T
Parse(t, s) == FirstMatch(t, s, TRUE)

\* Mutant: Set assigns whatever the constructor returned.
SetValue_AlwaysAssigns(t, v, s) ==
    [val |-> Parse(t, s),
     err |-> IF Valid(t, Parse(t, s)) THEN NoErr ELSE ErrInvalid(t, s)]

\* func (v *T) Set(s string) error: the receiver after the call and the error.
SetValue(t, v, s) ==
    IF Valid(t, Parse(t, s))
    THEN [val |-> Parse(t, s), err |-> NoErr]
    ELSE [val |-> v, err |-> ErrInvalid(t, s)]

\* The index: keys of the values of Size as declared, 0 where there is none.
SizeIndexes == <<1, 0, 4, 10>>

\* The indexes the generator gives the enumerators of a declaration: the
\* explicit index where there is one, and otherwise one more than the index
\* of the enumerator before, starting at next.
RECURSIVE AssignIndexes(_, _)
AssignIndexes(decl, next) ==
    IF decl = <<>> THEN <<>>
    ELSE LET n == IF Head(decl) # 0 THEN Head(decl) ELSE next
         IN  <<n>> \o AssignIndexes(Tail(decl), n + 1)

\* TFromIndex for a type with an index table: the first position whose entry
\* of _idx_T equals n, and the zero value when no entry does.
FromIndexTable(t, n) ==
    LET hits == {p \in 1..(Len(t.idx) - 1) : t.idx[p + 1] = n}
    IN  IF hits = {} THEN 0 ELSE CHOOSE p \in hits : \A q \in hits : p <= q

\* Mutant: TFromIndex checks only that n is positive.
FromIndex_Unchecked(t, n) == IF n <= 0 THEN 0 ELSE n

\* Mutant: TFromIndex takes n for a position, whatever the index table says.
FromIndex_Position(t, n) == IF n <= 0 \/ n >= Len(t.labels) THEN 0 ELSE n

\* func TFromIndex(v int) T: without an index table,
\* if v <= 0 || v >= len(_str_T) { return zero }; return T{uint8(v)}
FromIndex(t, n) ==
    IF t.idx # <<>> THEN FromIndexTable(t, n)
    ELSE IF n <= 0 \/ n >= Len(t.labels) THEN 0 ELSE n

\* func (v T) MarshalText() ([]byte, error) { return []byte(v.String()), nil }
MarshalText(t, v) == [data |-> String(t, v), err |-> NoErr]

\* Mutant: only the empty input decodes to the zero value.
Unmarshal_EmptyOnly(t, v, data) ==
    IF data = ""
    THEN [val |-> 0, err |-> NoErr]
    ELSE LET n == FirstMatch(t, data, FALSE)
         IN  IF n # 0 THEN [val |-> n, err |-> NoErr]
             ELSE [val |-> 0, err |-> ErrInvalid(t, data)]

\* Mutant: UnmarshalText leaves the receiver alone when it fails, as Set does.
Unmarshal_KeepsOnFailure(t, v, data) ==
    IF data = "" \/ data = t.labels[1]
    THEN [val |-> 0, err |-> NoErr]
    ELSE LET n == FirstMatch(t, data, FALSE)
         IN  IF n # 0 THEN [val |-> n, err |-> NoErr]
             ELSE [val |-> v, err |-> ErrInvalid(t, data)]

\* Mutant: UnmarshalText compares up to case, as the constructor does.
Unmarshal_Folding(t, v, data) ==
    IF data = "" \/ data = t.labels[1]
    THEN [val |-> 0, err |-> NoErr]
    ELSE LET n == FirstMatch(t, data, TRUE)
         IN  IF n # 0 THEN [val |-> n, err |-> NoErr]
             ELSE [val |-> 0, err |-> ErrInvalid(t, data)]

\* func (v *T) UnmarshalText(data []byte) error: the receiver is reset first.
Unmarshal(t, v, data) ==
    IF data = "" \/ data = t.labels[1]
    THEN [val |-> 0, err |-> NoErr]
    ELSE LET n == FirstMatch(t, data, FALSE)
         IN  IF n # 0 THEN [val |-> n, err |-> NoErr]
             ELSE [val |-> 0, err |-> ErrInvalid(t, data)]

\* The types Size, Count and E3 of the package testdata, as they are checked
\* in.  Size is declared with from-index, and its tests call SizeFromIndex.
Size ==
    [type     |-> "Size",
     base     |-> "uint8",
     parse    |-> "",
     flag     |-> FALSE,
     text     |-> FALSE,
     from     |-> TRUE,
     labels   |-> <<"<invalid>", "Small", "Medium", "Large", "XLarge">>,
     idx      |-> <<0, 1, 2, 4, 10>>,
     bindings |-> <<[name |-> "Small", index |-> 1], [name |-> "Medium", index |-> 2],
                    [name |-> "Large", index |-> 3], [name |-> "XLarge", index |-> 4]>>]

Count ==
    [type     |-> "Count",
     base     |-> "uint8",
     parse    |-> "",
     flag     |-> FALSE,
     text     |-> FALSE,
     from     |-> FALSE,
     labels   |-> <<"zilch", "lonely", "tango">>,
     idx      |-> <<>>,
     bindings |-> <<[name |-> "Zero", index |-> 0], [name |-> "One", index |-> 1],
                    [name |-> "Two", index |-> 2]>>]

E3 ==
    [type     |-> "E3",
     base     |-> "uint8",
     parse    |-> "newE3",
     flag     |-> TRUE,
     text     |-> TRUE,
     from     |-> TRUE,
     labels   |-> <<"<invalid>", "foo", "bar">>,
     idx      |-> <<>>,
     bindings |-> <<[name |-> "X", index |-> 1], [name |-> "Y", index |-> 2]>>]

\* No type, and the result of no call.
NoType ==
    [type |-> "", base |-> "", parse |-> "", flag |-> FALSE, text |-> FALSE,
     from |-> FALSE, labels |-> <<>>, idx |-> <<>>, bindings |-> <<>>]

NoCall == [op |-> "", arg |-> "", n |-> 0, err |-> NoErr]

\* No source file, nothing loaded, and no run of the command.
NoFile == [package |-> "", parses |-> FALSE, groups |-> <<>>]

NoConfig == [Package |-> "", Enum |-> <<>>]

NoLoad == [cfg |-> NoConfig, err |-> NoErr]

NoDiag == [msg |-> "", cause |-> NoErr]

NoRun ==
    [pc |-> "", config |-> "", output |-> "", f |-> "none", err |-> NoErr,
     cerr |-> NoErr, diag |-> NoDiag, exit |-> -1]

\* ------------------------------------------------------------------------
\* State.

VARIABLES
    cfg,        \* the receiver c of Generate
    pc,         \* "Generate", "enum", "value", "emit", "format", "done", "use"
    i,          \* index of the enumeration loop (0-based, as in the code)
    j,          \* index of the value loop (0-based)
    enumSeen,   \* type names seen
    valueSeen,  \* full identifier -> type name of the enumeration that owns it
    thisName,   \* bare names seen in the current enumeration
    verr,       \* what checkValid returned
    buf,        \* the text emitted so far
    out,        \* the arguments of the calls of w.Write, in order
    ret,        \* what Generate returned
    typ,        \* the generated type the program uses
    val,        \* a variable v of that type: its stored index
    res,        \* the last call on v: the method, its argument, its error
    nvals,      \* the argument of a call of baseType, in limbs
    file,       \* the Go source file passed to ConfigFromSource
    loaded,     \* what ConfigFromSource returned
    cli         \* the run of the command: flags, variables of main, exit

\* The variables of the program that uses the generated code.
use == <<typ, val, res, nvals>>

\* The variables of Generate.
gen == <<cfg, i, j, enumSeen, valueSeen, thisName, verr, buf, out, ret>>

\* The variables of the configuration loader and of the command.
env == <<file, loaded, cli>>

vars == <<cfg, pc, i, j, enumSeen, valueSeen, thisName, verr, buf, out, ret, typ, val, res, nvals,
          file, loaded, cli>>

\* The state in which Generate is called: nothing is checked, emitted or
\* written yet, and no generated code is in use.
Called ==
    /\ pc = "Generate"
    /\ i = 0
    /\ j = 0
    /\ enumSeen = {}
    /\ valueSeen = EmptyMap
    /\ thisName = {}
    /\ verr = NoErr
    /\ buf = NoText
    /\ out = <<>>
    /\ ret = NoErr
    /\ typ = NoType
    /\ val = 0
    /\ res = NoCall
    /\ nvals = Limbs(0)
    /\ file = NoFile
    /\ loaded = NoLoad
    /\ cli = NoRun

Init ==
    /\ cfg \in Config
    /\ Called

\* checkValid returns err to Generate, which returns it or goes on to emit.
Return(err) ==
    /\ verr' = err
    /\ pc' = AfterCheck(err)
    /\ ret' = err

\* Generate calls checkValid: the checks before the loop.
CheckConfig ==
    /\ pc = "Generate"
    /\ IF cfg.Package = "" THEN Return(ErrPackage)
       ELSE IF Len(cfg.Enum) = 0 THEN Return(ErrNoEnums)
       ELSE /\ pc' = "enum"
            /\ UNCHANGED <<verr, ret>>
    /\ UNCHANGED <<cfg, i, j, enumSeen, valueSeen, thisName, buf, out>>
    /\ UNCHANGED use
    /\ UNCHANGED env

\* One iteration of the loop over c.Enum, up to its loop over e.Values.
CheckEnum ==
    /\ pc = "enum"
    /\ LET e   == cfg.Enum[i + 1]
           err == EnumError(i, e, enumSeen, valueSeen)
       IN  /\ enumSeen' = IF e.Type = "" \/ e.Type \in enumSeen
                          THEN enumSeen ELSE enumSeen \cup {e.Type}
           /\ IF err # NoErr
              THEN /\ Return(err)
                   /\ UNCHANGED <<valueSeen, thisName, j>>
              ELSE /\ valueSeen' = RegisterZero(valueSeen, e)
                   /\ thisName' = {}
                   /\ j' = 0
                   /\ pc' = "value"
                   /\ UNCHANGED <<verr, ret>>
    /\ UNCHANGED <<cfg, i, buf, out>>
    /\ UNCHANGED use
    /\ UNCHANGED env

\* One iteration of the loop over e.Values.  After the last value the outer
\* loop moves on, and after the last enumeration checkValid returns nil.
CheckValue ==
    /\ pc = "value"
    /\ LET e   == cfg.Enum[i + 1]
           v   == e.Values[j + 1]
           err == ValueError(j, e, v, thisName, valueSeen)
       IN  /\ thisName' = IF v.Name = "" \/ NameDuplicated(thisName, e, v)
                          THEN thisName ELSE thisName \cup {v.Name}
           /\ IF err # NoErr
              THEN /\ Return(err)
                   /\ UNCHANGED <<valueSeen, i, j>>
              ELSE /\ valueSeen' = Put(valueSeen, FullId(e, v), e.Type)
                   /\ j' = j + 1
                   /\ IF j + 1 < Len(e.Values)
                      THEN UNCHANGED <<i, pc, verr, ret>>
                      ELSE /\ i' = i + 1
                           /\ IF i + 1 < Len(cfg.Enum)
                              THEN /\ pc' = "enum"
                                   /\ UNCHANGED <<verr, ret>>
                              ELSE Return(NoErr)
    /\ UNCHANGED <<cfg, enumSeen, buf, out>>
    /\ UNCHANGED use
    /\ UNCHANGED env

\* Generate prints the header and every enumeration into buf.  Enum.generate
\* has no failing path (it ends in return nil), so the loop always completes.
Emit ==
    /\ pc = "emit"
    /\ \E imps \in Orders(Imports(cfg)) : buf' = Emitted(cfg, imps)
    /\ pc' = "format"
    /\ UNCHANGED <<cfg, i, j, enumSeen, valueSeen, thisName, verr, out, ret>>
    /\ UNCHANGED use
    /\ UNCHANGED env

\* Generate formats buf and writes to w.  The writer may fail; its error is
\* returned only on the path where formatting succeeded.
Format ==
    /\ pc = "format"
    /\ \E werr \in {NoErr, ErrWrite} :
          /\ out' = out \o Writes(buf)
          /\ ret' = IF FormatOK(buf) THEN werr ELSE ErrFormat
    /\ pc' = "done"
    /\ UNCHANGED <<cfg, i, j, enumSeen, valueSeen, thisName, verr, buf>>
    /\ UNCHANGED use
    /\ UNCHANGED env

Next ==
    \/ CheckConfig
    \/ CheckEnum
    \/ CheckValue
    \/ Emit
    \/ Format

Spec == Init /\ [][Next]_vars

\* ------------------------------------------------------------------------
\* A program that uses the generated code.

\* The package testdata is checked in as generated; the configuration it was
\* generated from is not a value of Config and is left empty.
Testdata == [Package |-> "testdata", Enum |-> <<>>]

\* Generation is explored from a call of Generate on a configuration with
\* flags and texts, use also from the types that are checked in.
GenInit ==
    \/ /\ cfg \in GenConfig
       /\ Called
    \/ /\ cfg = Testdata
       /\ pc = "use"
       /\ i = 0
       /\ j = 0
       /\ enumSeen = {}
       /\ valueSeen = EmptyMap
       /\ thisName = {}
       /\ verr = NoErr
       /\ buf = NoText
       /\ out = <<>>
       /\ ret = NoErr
       /\ typ \in {Size, Count, E3}
       /\ val = 0
       /\ res = NoCall
       /\ nvals = Limbs(0)
       /\ file = NoFile
       /\ loaded = NoLoad
       /\ cli = NoRun

\* The written source is compiled and the program declares a variable v of
\* one of its types: v holds the zero value of the type.
Load ==
    /\ pc = "done"
    /\ ret = NoErr
    /\ Len(out) = 1
    /\ out[1].gofmt
    /\ Compiles(out[1])
    /\ \E k \in 1..Len(out[1].decls) : typ' = out[1].decls[k]
    /\ val' = 0
    /\ res' = NoCall
    /\ pc' = "use"
    /\ UNCHANGED <<cfg, i, j, enumSeen, valueSeen, thisName, verr, buf, out, ret, nvals>>
    /\ UNCHANGED env

\* v = B, for a binding B of the var block.
UseBinding ==
    /\ pc = "use"
    /\ \E b \in 1..Len(typ.bindings) :
          /\ val' = typ.bindings[b].index
          /\ res' = [NoCall EXCEPT !.op = "binding", !.arg = typ.bindings[b].name]
    /\ UNCHANGED <<cfg, pc, i, j, enumSeen, valueSeen, thisName, verr, buf, out, ret, typ, nvals>>
    /\ UNCHANGED env

\* v = NewT(s)
CallNew ==
    /\ pc = "use"
    /\ typ.parse # ""
    /\ \E s \in Inputs :
          /\ val' = Parse(typ, s)
          /\ res' = [NoCall EXCEPT !.op = "New", !.arg = s]
    /\ UNCHANGED <<cfg, pc, i, j, enumSeen, valueSeen, thisName, verr, buf, out, ret, typ, nvals>>
    /\ UNCHANGED env

\* err = v.Set(s)
CallSet ==
    /\ pc = "use"
    /\ typ.flag
    /\ \E s \in Inputs :
          /\ val' = SetValue(typ, val, s).val
          /\ res' = [NoCall EXCEPT !.op = "Set", !.arg = s, !.err = SetValue(typ, val, s).err]
    /\ UNCHANGED <<cfg, pc, i, j, enumSeen, valueSeen, thisName, verr, buf, out, ret, typ, nvals>>
    /\ UNCHANGED env

\* data, err = v.MarshalText(): res.arg holds the text returned.
CallMarshalText ==
    /\ pc = "use"
    /\ typ.text
    /\ res' = [NoCall EXCEPT !.op = "MarshalText", !.arg = MarshalText(typ, val).data,
                              !.err = MarshalText(typ, val).err]
    /\ UNCHANGED <<cfg, pc, i, j, enumSeen, valueSeen, thisName, verr, buf, out, ret, typ, val, nvals>>
    /\ UNCHANGED env

\* v = TFromIndex(n)
CallFromIndex ==
    /\ pc = "use"
    /\ typ.from
    /\ \E n \in Indexes :
          /\ val' = FromIndex(typ, n)
          /\ res' = [NoCall EXCEPT !.op = "FromIndex", !.n = n]
    /\ UNCHANGED <<cfg, pc, i, j, enumSeen, valueSeen, thisName, verr, buf, out, ret, typ, nvals>>
    /\ UNCHANGED env

\* err = v.UnmarshalText(data)
CallUnmarshalText ==
    /\ pc = "use"
    /\ typ.text
    /\ \E data \in Inputs :
          /\ val' = Unmarshal(typ, val, data).val
          /\ res' = [NoCall EXCEPT !.op = "UnmarshalText", !.arg = data,
                                    !.err = Unmarshal(typ, val, data).err]
    /\ UNCHANGED <<cfg, pc, i, j, enumSeen, valueSeen, thisName, verr, buf, out, ret, typ, nvals>>
    /\ UNCHANGED env

GenNext ==
    \/ CheckConfig
    \/ CheckEnum
    \/ CheckValue
    \/ Emit
    \/ Format
    \/ Load
    \/ UseBinding
    \/ CallNew
    \/ CallSet
    \/ CallMarshalText
    \/ CallFromIndex
    \/ CallUnmarshalText

GenSpec == GenInit /\ [][GenNext]_vars

\* ------------------------------------------------------------------------
\* baseType on its own, on counts around its thresholds.

\* The limbs the counts are drawn from.
LowLimbs == {0, 1, 2, 254, 255, 256, 257, 65534, 65535}

HighLimbs == {0, 1, 2, 65534, 65535, 65536, 65537}

\* Enum.generate is about to call baseType(len(e.Values)) for an enumeration
\* with any flags.
WidthInit ==
    /\ cfg = [Package |-> "foo", Enum |-> <<>>]
    /\ pc = "baseType"
    /\ i = 0
    /\ j = 0
    /\ enumSeen = {}
    /\ valueSeen = EmptyMap
    /\ thisName = {}
    /\ verr = NoErr
    /\ buf = NoText
    /\ out = <<>>
    /\ ret = NoErr
    /\ typ \in {[NoType EXCEPT !.type = "bar", !.parse = p, !.flag = f, !.text = t] :
                   p \in {"", "Newbar"}, f \in BOOLEAN, t \in BOOLEAN}
    /\ val = 0
    /\ res = NoCall
    /\ nvals \in [hi : HighLimbs, lo : LowLimbs]
    /\ file = NoFile
    /\ loaded = NoLoad
    /\ cli = NoRun

\* base := baseType(len(e.Values))
CallBaseType ==
    /\ pc = "baseType"
    /\ typ' = [typ EXCEPT !.base = widthOf(nvals)]
    /\ pc' = "generate"
    /\ UNCHANGED <<cfg, i, j, enumSeen, valueSeen, thisName, verr, buf, out, ret,
                   val, res, nvals>>
    /\ UNCHANGED env

WidthNext == CallBaseType

WidthSpec == WidthInit /\ [][WidthNext]_vars

\* ------------------------------------------------------------------------
\* ConfigFromSource on a Go source file.

MaxGroups == 3

\* A comment group of the file: whether its first comment starts with the
\* enumgen:type tag, and the text after the tag on that line.
Groups == {[tagged |-> FALSE, name |-> ""],
           [tagged |-> TRUE, name |-> "bar"],
           [tagged |-> TRUE, name |-> "baz"]}

\* The files: the package clause, whether parser.ParseFile accepts the text,
\* and the comment groups in file order.
SourceFiles ==
    [package : {"foo", "quux"}, parses : BOOLEAN, groups : SeqsUpTo(Groups, MaxGroups)]

ErrSyntax == [NoErr EXCEPT !.msg = "syntax error"]

\* fmt.Errorf("%w found in %q", errNoComment, path)
ErrNoComment == [NoErr EXCEPT !.msg = "no config comment"]

\* The loop over f.Comments: one block for each tagged group, in file order.
EnumBlocks(f) == SelectSeq(f.groups, LAMBDA g : g.tagged)

\* The lines printed into buf: the header "package: P" and "enum:" first,
\* then "- type: N" and the body for each block.
YAMLText(f) ==
    <<[key |-> "package", value |-> f.package], [key |-> "enum", value |-> ""]>>
    \o [k \in 1..Len(EnumBlocks(f)) |-> [key |-> "type", value |-> EnumBlocks(f)[k].name]]

\* ParseConfig decodes the text: the package, and one enumeration for each
\* "- type:" item.  The bodies of the blocks are left out of this model.
ParseConfig(text) ==
    [cfg |-> [Package |-> text[1].value,
              Enum    |-> [k \in 1..(Len(text) - 2) |->
                             [Type |-> text[k + 2].value, Prefix |-> "", Zero |-> "",
                              Values |-> <<>>, Constructor |-> FALSE,
                              FlagValue |-> FALSE, TextMarshal |-> FALSE]]],
     err |-> NoErr]

\* func ConfigFromSource(path string, text []byte) (*Config, error)
ConfigFromSource(f) ==
    IF ~f.parses THEN [cfg |-> NoConfig, err |-> ErrSyntax]
    ELSE IF Len(YAMLText(f)) = 0 THEN [cfg |-> NoConfig, err |-> ErrNoComment]
    ELSE ParseConfig(YAMLText(f))

SourceInit ==
    /\ cfg = NoConfig
    /\ pc = "ConfigFromSource"
    /\ i = 0
    /\ j = 0
    /\ enumSeen = {}
    /\ valueSeen = EmptyMap
    /\ thisName = {}
    /\ verr = NoErr
    /\ buf = NoText
    /\ out = <<>>
    /\ ret = NoErr
    /\ typ = NoType
    /\ val = 0
    /\ res = NoCall
    /\ nvals = Limbs(0)
    /\ file \in SourceFiles
    /\ loaded = NoLoad
    /\ cli = NoRun

\* cfg, err := ConfigFromSource(path, text)
CallConfigFromSource ==
    /\ pc = "ConfigFromSource"
    /\ loaded' = ConfigFromSource(file)
    /\ pc' = "loaded"
    /\ UNCHANGED <<gen, use, file, cli>>

SourceNext == CallConfigFromSource

SourceSpec == SourceInit /\ [][SourceNext]_vars

\* ------------------------------------------------------------------------
\* The command: main of enumgen.go, with Generate as modelled above.

\* The configurations gen.LoadConfig may return: anything the YAML text
\* decodes to, valid or not.
MainConfigs == {c \in Config : Len(c.Enum) <= 1}

\* The errors of the file system.
ErrRead == [NoErr EXCEPT !.msg = "open enums.yml: no such file or directory"]

ErrCreate == [NoErr EXCEPT !.msg = "open generated.go: permission denied"]

ErrClose == [NoErr EXCEPT !.msg = "close generated.go: input/output error"]

\* log.Fatal and log.Fatalf: the message is written and the process exits
\* with status 1.
Fatal(c, msg, cause) ==
    [c EXCEPT !.diag = [msg |-> msg, cause |-> cause], !.exit = 1, !.pc = "exit"]

\* The command is started with any values of its two flags.
MainInit ==
    /\ cfg = NoConfig
    /\ pc = "main"
    /\ i = 0
    /\ j = 0
    /\ enumSeen = {}
    /\ valueSeen = EmptyMap
    /\ thisName = {}
    /\ verr = NoErr
    /\ buf = NoText
    /\ out = <<>>
    /\ ret = NoErr
    /\ typ = NoType
    /\ val = 0
    /\ res = NoCall
    /\ nvals = Limbs(0)
    /\ file = NoFile
    /\ loaded = NoLoad
    /\ cli \in {[NoRun EXCEPT !.pc = "main", !.config = c, !.output = o] :
                   c \in {"", "enums.yml"}, o \in {"", "generated.go"}}

\* flag.Parse() and the switch on the two required flags.
ParseFlags ==
    /\ cli.pc = "main"
    /\ cli' = IF cli.config = ""
              THEN Fatal(cli, "You must specify a -config file path", NoErr)
              ELSE IF cli.output = ""
              THEN Fatal(cli, "You must specify an -output file path", NoErr)
              ELSE [cli EXCEPT !.pc = "LoadConfig"]
    /\ UNCHANGED <<pc, gen, use, file, loaded>>

\* cfg, err := gen.LoadConfig(*configPath)
LoadConfig ==
    /\ cli.pc = "LoadConfig"
    /\ \/ /\ cli' = Fatal([cli EXCEPT !.err = ErrRead], "Reading config", ErrRead)
          /\ UNCHANGED cfg
       \/ /\ cfg' \in MainConfigs
          /\ cli' = [cli EXCEPT !.err = NoErr, !.pc = "Create"]
    /\ UNCHANGED <<pc, i, j, enumSeen, valueSeen, thisName, verr, buf, out, ret>>
    /\ UNCHANGED <<use, file, loaded>>

\* f, err := os.Create(*outputPath), and on success the call cfg.Generate(f).
CreateOutput ==
    /\ cli.pc = "Create"
    /\ \/ /\ cli' = Fatal([cli EXCEPT !.err = ErrCreate], "Output", ErrCreate)
          /\ UNCHANGED pc
       \/ /\ cli' = [cli EXCEPT !.err = NoErr, !.f = "open", !.pc = "Generate"]
          /\ pc' = "Generate"
    /\ UNCHANGED <<gen, use, file, loaded>>

\* Generate has returned: err = cfg.Generate(f); cerr := f.Close()
CloseOutput ==
    /\ cli.pc = "Generate"
    /\ pc = "done"
    /\ \E cerr \in {NoErr, ErrClose} :
          cli' = [cli EXCEPT !.err = ret, !.cerr = cerr, !.f = "closed", !.pc = "Report"]
    /\ UNCHANGED <<pc, gen, use, file, loaded>>

\* if err != nil { log.Fatalf("Generate: %v", err) }
\* else if cerr != nil { log.Fatalf("Close output: %v", err) }
Report ==
    /\ cli.pc = "Report"
    /\ cli' = IF cli.err # NoErr THEN Fatal(cli, "Generate", cli.err)
              ELSE IF cli.cerr # NoErr THEN Fatal(cli, "Close output", cli.err)
              ELSE [cli EXCEPT !.exit = 0, !.pc = "exit"]
    /\ UNCHANGED <<pc, gen, use, file, loaded>>

MainNext ==
    \/ ParseFlags
    \/ LoadConfig
    \/ CreateOutput
    \/ CheckConfig
    \/ CheckEnum
    \/ CheckValue
    \/ Emit
    \/ Format
    \/ CloseOutput
    \/ Report

MainSpec == MainInit /\ [][MainNext]_vars

TypeOK ==
    /\ cfg \in Config \cup GenConfig \cup {Testdata, [Package |-> "foo", Enum |-> <<>>]}
    /\ pc \in {"Generate", "enum", "value", "emit", "format", "done", "use",
              "baseType", "generate", "ConfigFromSource", "loaded", "main"}
    /\ i \in 0..MaxEnums
    /\ j \in 0..MaxValues
    /\ enumSeen \subseteq TypeNames
    /\ thisName \subseteq ValueNames
    /\ Len(out) <= 1

\* ------------------------------------------------------------------------
\* What a Declaration Set declares, stated on the configuration alone.

\* An error value written out field by field.
E(msg, enum, type, value, name, owner) ==
    [msg |-> msg, enum |-> enum, type |-> type, value |-> value,
     name |-> name, owner |-> owner]

\* checkValid has returned.
Validated == pc \in {"emit", "format", "done"}

\* The full identifiers an enumeration claims: its enumerators and, when
\* zeroName is set, its zero binding.
Identifiers(e) ==
    {e.Prefix \o e.Values[m].Name : m \in 1..Len(e.Values)}
        \cup (IF e.Zero # "" THEN {e.Prefix \o e.Zero} ELSE {})

\* The enumeration re-declares its own zero name in its values list.
SelfZero(e) == e.Zero # "" /\ \E m \in 1..Len(e.Values) : e.Values[m].Name = e.Zero

\* Some bare name occurs twice in the values list of e.
HasRepeat(e) ==
    \E m1, m2 \in 1..Len(e.Values) : m1 < m2 /\ e.Values[m1].Name = e.Values[m2].Name

WellFormed(c) ==
    /\ c.Package # ""
    /\ Len(c.Enum) >= 1
    /\ \A k \in 1..Len(c.Enum) :
          /\ c.Enum[k].Type # ""
          /\ Len(c.Enum[k].Values) >= 1
          /\ \A m \in 1..Len(c.Enum[k].Values) : c.Enum[k].Values[m].Name # ""
          /\ ~HasRepeat(c.Enum[k])
    /\ \A k, l \in 1..Len(c.Enum) :
          k # l => /\ c.Enum[k].Type # c.Enum[l].Type
                   /\ Identifiers(c.Enum[k]) \cap Identifiers(c.Enum[l]) = {}

\* The type name of the first enumeration before position k that claims id.
OwnerBefore(c, k, id) ==
    LET first == CHOOSE l \in 1..(k - 1) :
                    /\ id \in Identifiers(c.Enum[l])
                    /\ \A l2 \in 1..(l - 1) : id \notin Identifiers(c.Enum[l2])
    IN  c.Enum[first].Type

ClaimedBefore(c, k, id) == \E l \in 1..(k - 1) : id \in Identifiers(c.Enum[l])

\* ------------------------------------------------------------------------
\* C1: checkValid accepts a Declaration Set exactly when the package name is
\* set, there is an enumeration, every type name is set and unique, every
\* enumeration has an enumerator, every enumerator name is set and unique in
\* its enumeration, and no full identifier is claimed by two enumerations; an
\* enumerator naming its own enumeration's zero name is the one repetition
\* allowed.
C1_AcceptsExactlyWellFormed ==
    Validated => (verr = NoErr <=> WellFormed(cfg))

\* A set of two enumerations, one of which re-declares its zero, is accepted.
C1_Witness ==
    /\ pc = "done"
    /\ verr = NoErr
    /\ Len(cfg.Enum) = 2
    /\ \E k \in 1..2 : SelfZero(cfg.Enum[k])

\* C2: when checkValid reaches the identifier check of an enumerator (its
\* name is set and is no repeat in its own list) and prefix+name is claimed
\* by an earlier enumeration, validation fails and the error cites prefix+name
\* and the type name of that earlier enumeration.
C2_CollisionCitesFullAndOwner ==
    [][ (/\ pc = "value"
         /\ cfg.Enum[i + 1].Values[j + 1].Name # ""
         /\ \A m \in 1..j :
               cfg.Enum[i + 1].Values[m].Name # cfg.Enum[i + 1].Values[j + 1].Name
         /\ ClaimedBefore(cfg, i + 1,
                cfg.Enum[i + 1].Prefix \o cfg.Enum[i + 1].Values[j + 1].Name))
        => (/\ pc' = "done"
            /\ ret' = verr'
            /\ verr' = E("name duplicated in", 0, cfg.Enum[i + 1].Type, j + 1,
                         cfg.Enum[i + 1].Prefix \o cfg.Enum[i + 1].Values[j + 1].Name,
                         OwnerBefore(cfg, i + 1,
                             cfg.Enum[i + 1].Prefix \o cfg.Enum[i + 1].Values[j + 1].Name)))
      ]_vars

\* bar (prefix "A", enumerator "X") then baz (enumerator "AX"): the error
\* cites "AX" and the owner "bar".
C2_Witness ==
    /\ pc = "done"
    /\ Len(cfg.Enum) = 2
    /\ cfg.Enum[1].Type = "bar" /\ cfg.Enum[1].Prefix = "A"
    /\ cfg.Enum[1].Values = <<[Name |-> "X", Text |-> ""]>>
    /\ cfg.Enum[2].Type = "baz" /\ cfg.Enum[2].Prefix = ""
    /\ cfg.Enum[2].Values = <<[Name |-> "AX", Text |-> ""]>>
    /\ verr = E("name duplicated in", 0, "baz", 1, "AX", "bar")

\* C3: an enumeration that re-declares its own zero name once passes
\* validation; a later enumeration with an enumerator of that same full
\* identifier is rejected, and when checkValid reaches that enumerator the
\* error names the first enumeration as the owner.
C3_SelfZeroPassesLaterReuseFails ==
    /\ (Validated /\ WellFormed(cfg) /\ \E k \in 1..Len(cfg.Enum) : SelfZero(cfg.Enum[k]))
          => verr = NoErr
    /\ \A k, l \in 1..Len(cfg.Enum) :
          (/\ Validated
           /\ k < l
           /\ SelfZero(cfg.Enum[k])
           /\ cfg.Enum[k].Prefix \o cfg.Enum[k].Zero \in
                 {cfg.Enum[l].Prefix \o cfg.Enum[l].Values[m].Name :
                     m \in 1..Len(cfg.Enum[l].Values)})
          => /\ verr # NoErr
             /\ (/\ i + 1 = l
                 /\ verr.value = j + 1
                 /\ verr.name = cfg.Enum[k].Prefix \o cfg.Enum[k].Zero
                 /\ verr.name = cfg.Enum[l].Prefix \o cfg.Enum[l].Values[j + 1].Name)
                => verr.owner = cfg.Enum[k].Type

\* bar (zero "X", values X) then baz (values X): rejected, owner bar.
C3_Witness ==
    /\ pc = "done"
    /\ Len(cfg.Enum) = 2
    /\ SelfZero(cfg.Enum[1])
    /\ cfg.Enum[1].Type = "bar"
    /\ cfg.Enum[1].Prefix \o cfg.Enum[1].Zero = "X"
    /\ cfg.Enum[2].Type = "baz"
    /\ cfg.Enum[2].Values = <<[Name |-> "X", Text |-> ""]>>
    /\ cfg.Enum[2].Prefix = ""
    /\ verr = E("name duplicated in", 0, "baz", 1, "X", "bar")

\* C4: when checkValid reaches the zero binding of an enumeration (zeroName
\* set, the checks of its type name and of its values list passed) and
\* prefix+zeroName is claimed by an earlier enumeration, as an enumerator or
\* as its zero binding, validation fails with "default ... duplicated in ..."
\* naming that earlier enumeration; otherwise the identifier is registered to
\* the current enumeration before any of its enumerators is examined.
C4_ZeroBindingCheckedThenRegistered ==
    [][ (/\ pc = "enum"
         /\ cfg.Enum[i + 1].Zero # ""
         /\ cfg.Enum[i + 1].Type # ""
         /\ \A k \in 1..i : cfg.Enum[k].Type # cfg.Enum[i + 1].Type
         /\ Len(cfg.Enum[i + 1].Values) > 0)
        => IF ClaimedBefore(cfg, i + 1, cfg.Enum[i + 1].Prefix \o cfg.Enum[i + 1].Zero)
           THEN /\ pc' = "done"
                /\ ret' = verr'
                /\ verr' = E("default duplicated in", 0, cfg.Enum[i + 1].Type, 0,
                             cfg.Enum[i + 1].Prefix \o cfg.Enum[i + 1].Zero,
                             OwnerBefore(cfg, i + 1,
                                 cfg.Enum[i + 1].Prefix \o cfg.Enum[i + 1].Zero))
           ELSE /\ pc' = "value"
                /\ j' = 0
                /\ thisName' = {}
                /\ Lookup(valueSeen', cfg.Enum[i + 1].Prefix \o cfg.Enum[i + 1].Zero)
                      = cfg.Enum[i + 1].Type
      ]_vars

\* bar (values Y... claiming the identifier as an enumerator) then baz with
\* that identifier as its zero binding: "default ... duplicated in bar".
C4_Witness ==
    /\ pc = "done"
    /\ Len(cfg.Enum) = 2
    /\ cfg.Enum[1].Type = "bar"
    /\ cfg.Enum[1].Zero = ""
    /\ cfg.Enum[2].Type = "baz"
    /\ cfg.Enum[2].Zero = "X"
    /\ verr = E("default duplicated in", 0, "baz", 0, "AX", "bar")

\* C5: a bare enumerator name that occurs a second time in the values list of
\* one enumeration is always rejected, also when it is the zero name of the
\* enumeration; when checkValid reaches the second occurrence, the error is
\* the duplicate-name error at that position, citing the bare name.
C5_RepeatedNameRejected ==
    /\ (Validated /\ \E k \in 1..Len(cfg.Enum) : HasRepeat(cfg.Enum[k]))
          => verr # NoErr
    /\ (/\ pc = "done"
        /\ i < Len(cfg.Enum)
        /\ j < Len(cfg.Enum[i + 1].Values)
        /\ verr # NoErr
        /\ verr.value = j + 1
        /\ cfg.Enum[i + 1].Values[j + 1].Name # ""
        /\ \E m \in 1..j :
              cfg.Enum[i + 1].Values[m].Name = cfg.Enum[i + 1].Values[j + 1].Name)
          => verr = E("name duplicated in", 0, cfg.Enum[i + 1].Type, j + 1,
                      cfg.Enum[i + 1].Values[j + 1].Name, cfg.Enum[i + 1].Type)

\* The zero name declared twice in the values list: the second is rejected.
C5_Witness ==
    /\ pc = "done"
    /\ Len(cfg.Enum) = 1
    /\ cfg.Enum[1].Zero = "X"
    /\ cfg.Enum[1].Prefix = "A"
    /\ cfg.Enum[1].Values = <<[Name |-> "X", Text |-> ""], [Name |-> "X", Text |-> ""]>>
    /\ verr = E("name duplicated in", 0, cfg.Enum[1].Type, 2, "X", cfg.Enum[1].Type)

\* ------------------------------------------------------------------------
\* The defects of a Declaration Set, stated on the configuration alone:
\* [kind, k, m] with k the 1-based position of the enumeration and m the
\* 1-based position of the enumerator (0 where there is none).

Defect(kind, k, m) == [kind |-> kind, k |-> k, m |-> m]

Defects(c) ==
    (IF c.Package = "" THEN {Defect("package", 0, 0)} ELSE {})
    \cup (IF Len(c.Enum) = 0 THEN {Defect("enums", 0, 0)} ELSE {})
    \cup {Defect("type", k, 0) : k \in {x \in 1..Len(c.Enum) : c.Enum[x].Type = ""}}
    \cup {Defect("duptype", k, 0) :
            k \in {x \in 1..Len(c.Enum) :
                     \E l \in 1..(x - 1) : c.Enum[l].Type = c.Enum[x].Type}}
    \cup {Defect("values", k, 0) :
            k \in {x \in 1..Len(c.Enum) : Len(c.Enum[x].Values) = 0}}
    \cup {Defect("zero", k, 0) :
            k \in {x \in 1..Len(c.Enum) :
                     /\ c.Enum[x].Zero # ""
                     /\ ClaimedBefore(c, x, c.Enum[x].Prefix \o c.Enum[x].Zero)}}
    \cup UNION {
           {Defect("name", k, m) :
              m \in {y \in 1..Len(c.Enum[k].Values) : c.Enum[k].Values[y].Name = ""}}
           \cup {Defect("dupname", k, m) :
              m \in {y \in 1..Len(c.Enum[k].Values) :
                       \E y2 \in 1..(y - 1) :
                          c.Enum[k].Values[y2].Name = c.Enum[k].Values[y].Name}}
           \cup {Defect("collision", k, m) :
              m \in {y \in 1..Len(c.Enum[k].Values) :
                       ClaimedBefore(c, k, c.Enum[k].Prefix \o c.Enum[k].Values[y].Name)}}
           : k \in 1..Len(c.Enum)}

\* The place of a kind of check within one enumeration or one enumerator.
Stage(kind) ==
    CASE kind = "package"   -> 0
      [] kind = "enums"     -> 1
      [] kind = "type"      -> 0
      [] kind = "duptype"   -> 1
      [] kind = "values"    -> 2
      [] kind = "zero"      -> 3
      [] kind = "name"      -> 0
      [] kind = "dupname"   -> 1
      [] kind = "collision" -> 2

\* d1 is checked before d2: by enumeration, then the checks of the
\* enumeration before those of its enumerators, then by enumerator, then by
\* the place of the check.
Before(d1, d2) ==
    \/ d1.k < d2.k
    \/ d1.k = d2.k /\ d1.m < d2.m
    \/ d1.k = d2.k /\ d1.m = d2.m /\ Stage(d1.kind) < Stage(d2.kind)

FirstDefect(c) ==
    CHOOSE d \in Defects(c) : \A d2 \in Defects(c) : d2 = d \/ Before(d, d2)

\* The error the order of the checks prescribes for defect d of c.
ErrorOf(c, d) ==
    CASE d.kind = "package"   -> E("package name not defined", 0, "", 0, "", "")
      [] d.kind = "enums"     -> E("no enumerations defined", 0, "", 0, "", "")
      [] d.kind = "type"      -> E("type name not defined", d.k, "", 0, "", "")
      [] d.kind = "duptype"   -> E("duplicate type name", d.k, "", 0, c.Enum[d.k].Type, "")
      [] d.kind = "values"    -> E("no enumerators defined", d.k, "", 0, "", "")
      [] d.kind = "zero"      ->
            E("default duplicated in", 0, c.Enum[d.k].Type, 0,
              c.Enum[d.k].Prefix \o c.Enum[d.k].Zero,
              OwnerBefore(c, d.k, c.Enum[d.k].Prefix \o c.Enum[d.k].Zero))
      [] d.kind = "name"      -> E("name not defined", 0, c.Enum[d.k].Type, d.m, "", "")
      [] d.kind = "dupname"   ->
            E("name duplicated in", 0, c.Enum[d.k].Type, d.m,
              c.Enum[d.k].Values[d.m].Name, c.Enum[d.k].Type)
      [] d.kind = "collision" ->
            E("name duplicated in", 0, c.Enum[d.k].Type, d.m,
              c.Enum[d.k].Prefix \o c.Enum[d.k].Values[d.m].Name,
              OwnerBefore(c, d.k, c.Enum[d.k].Prefix \o c.Enum[d.k].Values[d.m].Name))

\* ------------------------------------------------------------------------
\* C6: validation stops at the first failure in the order: package name,
\* no enumerations, then per enumeration in declared order type name,
\* duplicate type name, no enumerators, zero-binding collision, then per
\* enumerator in declared order empty name, duplicate name, cross-enumeration
\* collision.  The error returned is the one of the earliest violation, and
\* the checks of an enumeration start only after every enumerator of every
\* earlier enumeration was checked and registered.
C6_FirstFailureInOrder ==
    /\ Validated =>
          verr = IF Defects(cfg) = {} THEN NoErr ELSE ErrorOf(cfg, FirstDefect(cfg))
    /\ pc \in {"enum", "value"} =>
          /\ i < Len(cfg.Enum)
          /\ \A k \in 1..i :
                /\ cfg.Enum[k].Type \in enumSeen
                /\ \A m \in 1..Len(cfg.Enum[k].Values) :
                      Lookup(valueSeen, cfg.Enum[k].Prefix \o cfg.Enum[k].Values[m].Name)
                         = cfg.Enum[k].Type
    /\ pc = "value" =>
          /\ j < Len(cfg.Enum[i + 1].Values)
          /\ thisName = {cfg.Enum[i + 1].Values[m].Name : m \in 1..j}

\* A set with three violations (a repeated type name without enumerators in
\* second place, an unnamed enumerator in first place): the first enumeration's
\* error is the one reported.
C6_Witness ==
    /\ pc = "done"
    /\ Cardinality(Defects(cfg)) >= 3
    /\ Len(cfg.Enum) = 2
    /\ cfg.Enum[2].Type = cfg.Enum[1].Type
    /\ Len(cfg.Enum[1].Values) = 2
    /\ cfg.Enum[1].Values[2].Name = ""
    /\ verr = E("name not defined", 0, cfg.Enum[1].Type, 2, "", "")

\* The kinds of defect of missing fields and empty collections, and of a
\* repeated type name, with the text of their errors.
Message(kind) ==
    CASE kind = "package" -> "package name not defined"
      [] kind = "enums"   -> "no enumerations defined"
      [] kind = "type"    -> "type name not defined"
      [] kind = "duptype" -> "duplicate type name"
      [] kind = "values"  -> "no enumerators defined"
      [] kind = "name"    -> "name not defined"

ConfigurationDefects == {"package", "enums", "type", "duptype", "values", "name"}

\* C7: a Declaration Set with an empty package name, no enumerations, an
\* empty type name, a type name seen earlier, an enumeration without
\* enumerators or an enumerator without name is rejected by Generate and
\* nothing is emitted or written; when that is its one defect, the error
\* returned is the error of that defect.
C7_ConfigurationDefectsRejected ==
    \A d \in Defects(cfg) :
       (pc = "done" /\ d.kind \in ConfigurationDefects)
          => /\ ret # NoErr
             /\ out = <<>>
             /\ buf = NoText
             /\ Defects(cfg) = {d} =>
                   /\ ret.msg = Message(d.kind)
                   /\ ret = ErrorOf(cfg, d)

\* Two enumerations of the same type name, nothing else wrong.
C7_Witness ==
    /\ pc = "done"
    /\ Defects(cfg) = {Defect("duptype", 2, 0)}
    /\ ret = E("duplicate type name", 2, "", 0, cfg.Enum[1].Type, "")
    /\ out = <<>>

\* The enumeration that owns what the defect d of c collides with.
OwnerOf(c, d) ==
    CASE d.kind = "zero" ->
            OwnerBefore(c, d.k, c.Enum[d.k].Prefix \o c.Enum[d.k].Zero)
      [] d.kind = "collision" ->
            OwnerBefore(c, d.k, c.Enum[d.k].Prefix \o c.Enum[d.k].Values[d.m].Name)
      [] d.kind = "dupname" -> c.Enum[d.k].Type

\* C8 as claimed: every validation error about an enumeration or an enumerator
\* names the 1-based position of the enumeration or of the enumerator, and
\* every collision error names the owner of the identifier.
C8_Original ==
    (pc = "done" /\ verr # NoErr /\ FirstDefect(cfg).k > 0) =>
       /\ IF FirstDefect(cfg).m = 0
          THEN verr.enum = FirstDefect(cfg).k
          ELSE verr.value = FirstDefect(cfg).m
       /\ FirstDefect(cfg).kind \in {"zero", "collision", "dupname"} =>
             verr.owner = OwnerOf(cfg, FirstDefect(cfg))
       /\ FirstDefect(cfg).kind = "duptype" =>
             verr.name = cfg.Enum[FirstDefect(cfg).k].Type

\* C8, amended: an error about the type name or the empty values list of an
\* enumeration names the 1-based position of the enumeration; an error about
\* an enumerator names the 1-based position of the enumerator and the type
\* name of its enumeration; the zero-binding collision error names no
\* position, only the type name of the enumeration; every collision error
\* names the owner of the identifier.
C8_PositionsAndOwners ==
    (pc = "done" /\ verr # NoErr /\ FirstDefect(cfg).k > 0) =>
       /\ FirstDefect(cfg).kind \in {"type", "duptype", "values"} =>
             verr.enum = FirstDefect(cfg).k /\ verr.value = 0
       /\ FirstDefect(cfg).kind \in {"name", "dupname", "collision"} =>
             /\ verr.value = FirstDefect(cfg).m
             /\ verr.enum = 0
             /\ verr.type = cfg.Enum[FirstDefect(cfg).k].Type
       /\ FirstDefect(cfg).kind = "zero" =>
             /\ verr.enum = 0
             /\ verr.value = 0
             /\ verr.type = cfg.Enum[FirstDefect(cfg).k].Type
       /\ FirstDefect(cfg).kind \in {"zero", "collision", "dupname"} =>
             verr.owner = OwnerOf(cfg, FirstDefect(cfg))
       /\ FirstDefect(cfg).kind = "duptype" =>
             verr.name = cfg.Enum[FirstDefect(cfg).k].Type

\* Two enumerations with the same zero binding: the error names "baz" and the
\* owner "bar" and no position.
C8_Witness ==
    /\ pc = "done"
    /\ Len(cfg.Enum) = 2
    /\ cfg.Enum[1].Zero = "X" /\ cfg.Enum[1].Prefix = ""
    /\ cfg.Enum[2].Zero = "X" /\ cfg.Enum[2].Prefix = ""
    /\ FirstDefect(cfg) = Defect("zero", 2, 0)
    /\ verr = E("default duplicated in", 0, "baz", 0, "X", "bar")

\* C9: Generate validates before it emits: when checkValid fails, Generate
\* returns that error, nothing was emitted into the buffer and nothing was
\* written; emission and formatting start only after checkValid went through
\* all enumerations and returned nil.
C9_ValidatesBeforeEmitting ==
    /\ verr # NoErr =>
          /\ pc = "done"
          /\ ret = verr
          /\ buf = NoText
          /\ out = <<>>
    /\ (pc \in {"emit", "format"} \/ buf # NoText \/ out # <<>>) =>
          /\ verr = NoErr
          /\ i = Len(cfg.Enum)
          /\ WellFormed(cfg)
    /\ (Validated /\ ~WellFormed(cfg)) => (pc = "done" /\ ret # NoErr /\ out = <<>>)

\* Generate returned a collision error and wrote nothing.
C9_Witness ==
    /\ pc = "done"
    /\ ret = E("name duplicated in", 0, "baz", 2, "A", "bar")
    /\ verr = ret
    /\ out = <<>>

\* C10: when formatting rejects the emitted text, Generate writes the
\* unformatted text and returns an error; when formatting succeeds, the
\* formatted text is written, once, and nothing else.
C10_FormatFailureSurfacesRawText ==
    (pc = "done" /\ verr = NoErr) =>
       /\ Len(out) = 1
       /\ out[1].package = cfg.Package
       /\ Len(out[1].decls) = Len(cfg.Enum)
       /\ IF cfg.Package = "func"
          THEN /\ out[1].gofmt = FALSE
               /\ out[1] = buf
               /\ ret = E("go format", 0, "", 0, "", "")
          ELSE /\ out[1].gofmt = TRUE
               /\ out[1] = [buf EXCEPT !.gofmt = TRUE]
               /\ ret.msg \in {"", "write failed"}

\* The package clause does not parse: raw text written, error returned.
C10_Witness ==
    /\ pc = "done"
    /\ cfg.Package = "func"
    /\ Len(cfg.Enum) = 2
    /\ out = <<buf>>
    /\ buf.gofmt = FALSE
    /\ ret.msg = "go format"

\* ------------------------------------------------------------------------
\* Emission and the generated code, on configurations with flags and texts.

\* One rendering per configuration: the import block in one fixed order.
Rendering(c) == Emitted(c, CHOOSE s \in Orders(Imports(c)) : TRUE)

\* C11: emission is deterministic: what Generate writes for a configuration
\* that passes validation is a function of the configuration, the import
\* block included, so two runs on the same configuration write the same.
C11_Deterministic ==
    (pc = "done" /\ verr = NoErr) => out = Writes(Rendering(cfg))

\* The generated code in use is the code Generate wrote for cfg.
Generated == pc = "use" /\ cfg \in GenConfig

\* The number of enumerators among the first m values of e: the values that
\* do not re-declare the zero name.
Rank(e, m) == Cardinality({l \in 1..m : e.Values[l].Name # e.Zero})

\* C12: in an enumeration without explicit indices the binding of the k-th
\* declared enumerator has ordinal k as Index reports it, and the zero value
\* of the type has ordinal 0.
C12_OrdinalIsPosition ==
    Generated =>
        LET e == cfg.Enum[1]
        IN  /\ res.op = "" => Index(typ, val) = 0
            /\ \A m \in 1..Len(e.Values) :
                  ( /\ res.op = "binding"
                    /\ e.Values[m].Name # e.Zero
                    /\ res.arg = e.Prefix \o e.Values[m].Name )
                  => Index(typ, val) = Rank(e, m)

C12_Witness ==
    /\ Generated
    /\ Len(cfg.Enum[1].Values) = 2
    /\ cfg.Enum[1].Zero = ""
    /\ res.op = "binding"
    /\ res.arg = cfg.Enum[1].Prefix \o cfg.Enum[1].Values[2].Name
    /\ Index(typ, val) = 2

\* The number N of enumerators of the type in use: counted in its
\* declaration, and 4 for Size and 2 for Count.
NumEnumerators ==
    IF cfg \in GenConfig THEN Rank(cfg.Enum[1], Len(cfg.Enum[1].Values))
    ELSE IF typ = Size THEN 4 ELSE 2

ZeroText(e) ==
    IF \E m \in 1..Len(e.Values) :
          e.Zero # "" /\ e.Values[m].Name = e.Zero /\ e.Values[m].Text # ""
    THEN e.Values[CHOOSE m \in 1..Len(e.Values) :
                     e.Values[m].Name = e.Zero /\ e.Values[m].Text # ""].Text
    ELSE ""

CountDecl ==
    [Type |-> "Count", Prefix |-> "", Zero |-> "Zero",
     Values |-> <<[Name |-> "Zero", Text |-> "zilch"],
                  [Name |-> "One", Text |-> "lonely"],
                  [Name |-> "Two", Text |-> "tango"]>>,
     Constructor |-> FALSE, FlagValue |-> FALSE, TextMarshal |-> FALSE]

Written == cfg \in GenConfig /\ verr = NoErr /\ Len(out) = 1

\* C16: when the zero name is set the var block has exactly one binding more
\* than enumerators: it is named prefix+zeroName, holds index 0 and stands
\* before every enumerator binding; its value equals the zero value of the
\* type and is invalid.  When the zero name is not set there is no binding
\* with index 0.
C16_ZeroBindingFirst ==
    /\ Written =>
          LET e == cfg.Enum[1]
              d == out[1].decls[1]
              n == Rank(e, Len(e.Values))
          IN  IF e.Zero # ""
              THEN /\ Len(d.bindings) = n + 1
                   /\ d.bindings[1] = [name |-> e.Prefix \o e.Zero, index |-> 0]
                   /\ \A b \in 2..Len(d.bindings) :
                         /\ d.bindings[b].index # 0
                         /\ d.bindings[b].name # e.Prefix \o e.Zero
              ELSE /\ Len(d.bindings) = n
                   /\ \A b \in 1..Len(d.bindings) : d.bindings[b].index # 0
    /\ ( /\ Generated
         /\ cfg.Enum[1].Zero # ""
         /\ res.op = "binding"
         /\ res.arg = cfg.Enum[1].Prefix \o cfg.Enum[1].Zero )
       => (val = 0 /\ ~Valid(typ, val))

\* The zero binding AX of an enumeration with prefix A, zero name X and the
\* enumerator A is in use.
C16_Witness ==
    /\ Generated
    /\ cfg.Enum[1].Prefix = "A"
    /\ cfg.Enum[1].Zero = "X"
    /\ Len(cfg.Enum[1].Values) = 1
    /\ typ.bindings = <<[name |-> "AX", index |-> 0], [name |-> "AA", index |-> 1]>>
    /\ typ.bindings[1].name = "AX"
    /\ res.op = "binding"
    /\ res.arg = "AX"
    /\ val = 0

\* The largest count that fits in each storage type, as limbs: 2^8 - 1,
\* 2^16 - 1, 2^32 - 1; every count fits in 64 bits.
FitsIn(base, c) ==
    CASE base = "uint8"  -> c.hi = 0 /\ c.lo <= 255
      [] base = "uint16" -> c.hi = 0
      [] base = "uint32" -> c.hi <= 65535
      [] base = "uint64" -> TRUE

Narrower(base) ==
    CASE base = "uint8"  -> {}
      [] base = "uint16" -> {"uint8"}
      [] base = "uint32" -> {"uint8", "uint16"}
      [] base = "uint64" -> {"uint8", "uint16", "uint32"}

\* C17: the storage type is decided by the count n of values alone: 8 bits
\* for n <= 255, 16 bits for 256 <= n <= 65535, 32 bits for 65536 <= n < 2^32
\* and 64 bits beyond; it is the narrowest type that holds n, so every stored
\* index 0..n fits.
C17_WidthByCount ==
    pc = "generate" =>
        /\ typ.base = IF nvals.hi = 0 /\ nvals.lo <= 255 THEN "uint8"
                      ELSE IF nvals.hi = 0 /\ nvals.lo >= 256 THEN "uint16"
                      ELSE IF nvals.hi >= 1 /\ nvals.hi <= 65535 THEN "uint32"
                      ELSE "uint64"
        /\ FitsIn(typ.base, nvals)
        /\ \A b \in Narrower(typ.base) : ~FitsIn(b, nvals)

\* baseType was called with 256, for a type with all methods: 16 bits.
C17_Witness ==
    /\ pc = "generate"
    /\ typ.flag
    /\ typ.text
    /\ nvals = [hi |-> 0, lo |-> 256]
    /\ typ.base = "uint16"

\* The label the declaration gives to its m-th value.
DeclaredLabel(e, m) ==
    IF e.Values[m].Text # "" THEN e.Values[m].Text ELSE e.Values[m].Name

\* Equality of two strings of this model up to the case of their letters.
SameFold(a, b) == a = b \/ {a, b} = {"A", "a"} \/ {a, b} = {"X", "x"}

\* The positions of the enumerators of e whose label equals s up to case.
Hits(e, s) ==
    {m \in 1..Len(e.Values) :
        e.Values[m].Name # e.Zero /\ SameFold(DeclaredLabel(e, m), s)}

\* The ordinal of the first enumerator of e in declared order whose label
\* equals s up to case, and 0 when there is none.
FirstHit(e, s) ==
    IF Hits(e, s) = {} THEN 0
    ELSE Rank(e, CHOOSE m \in Hits(e, s) : \A l \in Hits(e, s) : m <= l)

\* C18: the constructor returns the first enumerator in declared order whose
\* label equals the input up to case, and the zero enumerator when no label
\* does; the string at index 0 of the label table is never matched, and the
\* result is never outside 0..N.
C18_ConstructorFirstMatch ==
    (Generated /\ res.op = "New") =>
        /\ val = FirstHit(cfg.Enum[1], res.arg)
        /\ val \in 0..NumEnumerators
        /\ Hits(cfg.Enum[1], res.arg) = {} => val = 0

\* The labels are "x" and "X": the constructor called with "X" returns the
\* first enumerator.
C18_Witness ==
    /\ Generated
    /\ cfg.Enum[1].Values = <<[Name |-> "A", Text |-> "x"], [Name |-> "X", Text |-> ""]>>
    /\ cfg.Enum[1].Zero = ""
    /\ res.op = "New"
    /\ res.arg = "X"
    /\ val = 1

InvalidLabel(e) == IF ZeroText(e) = "" THEN "<invalid>" ELSE ZeroText(e)

\* C20: UnmarshalText of the empty input, or of the label of the invalid
\* value, leaves the receiver at the zero enumerator and returns no error,
\* whatever the receiver held before the call.
C20_DecodesInvalidToZero ==
    [][ ( /\ Generated
          /\ res'.op = "UnmarshalText"
          /\ res'.arg \in {"", InvalidLabel(cfg.Enum[1])} )
        => (val' = 0 /\ res'.err = NoErr)
      ]_vars

\* "<invalid>" was decoded by a type one of whose enumerators has the text
\* "<invalid>": the receiver is the zero enumerator and there is no error.
C20_Witness ==
    /\ Generated
    /\ cfg.Enum[1].Values = <<[Name |-> "A", Text |-> "<invalid>"]>>
    /\ res.op = "UnmarshalText"
    /\ res.arg = "<invalid>"
    /\ res.err = NoErr
    /\ val = 0

\* The positions of the enumerators of e whose label is exactly s.
ExactHits(e, s) ==
    {m \in 1..Len(e.Values) : e.Values[m].Name # e.Zero /\ DeclaredLabel(e, m) = s}

\* C21: UnmarshalText matches a text only against a label it equals exactly.
\* A non-empty text that is not the label of the invalid value and equals no
\* enumerator's label, also one that differs from a label only in the case of
\* its letters, fails with an error that names the text; a text that decodes
\* to an enumerator is exactly that enumerator's label.
C21_ExactMatchOnly ==
    [][ (Generated /\ res'.op = "UnmarshalText") =>
           LET s == res'.arg
               e == cfg.Enum[1]
           IN  /\ (s \notin {"", InvalidLabel(e)} /\ ExactHits(e, s) = {})
                     => res'.err = E("invalid value for", 0, e.Type, 0, s, "")
               /\ (res'.err = NoErr /\ val' # 0)
                     => \E m \in ExactHits(e, s) : val' = Rank(e, m)
      ]_vars

\* The only label is "A" and the text "a" was decoded: the constructor would
\* have matched it, UnmarshalText fails and names "a".
C21_Witness ==
    /\ Generated
    /\ cfg.Enum[1].Values = <<[Name |-> "A", Text |-> ""]>>
    /\ cfg.Enum[1].Zero = ""
    /\ typ.parse # ""
    /\ res.op = "UnmarshalText"
    /\ res.arg = "a"
    /\ res.err = E("invalid value for", 0, "bar", 0, "a", "")

\* C22: for a validated enumeration with the text methods, MarshalText never
\* fails, and decoding what it returns for a declared enumerator, into a
\* receiver holding any value, succeeds and leaves the receiver equal to that
\* enumerator.
C22_RoundTrip ==
    (Generated /\ typ.text) =>
        \A m \in 1..Len(cfg.Enum[1].Values) :
            cfg.Enum[1].Values[m].Name # cfg.Enum[1].Zero =>
                LET n == Rank(cfg.Enum[1], m)
                IN  /\ MarshalText(typ, n).err = NoErr
                    /\ \A v \in 0..NumEnumerators :
                          Unmarshal(typ, v, MarshalText(typ, n).data)
                             = [val |-> n, err |-> NoErr]

\* The ordinals of the enumerators of the checked-in type in use, in declared
\* order: Size declares 1, none, 4, 10 and E3 declares none.
Ordinals == AssignIndexes(IF typ = Size THEN SizeIndexes ELSE <<0, 0>>, 1)

\* A checked-in type with a FromIndex function is in use.
Looked == pc = "use" /\ cfg = Testdata /\ typ.from

\* C23: TFromIndex(n) is the enumerator whose ordinal is n, and the zero
\* enumerator when no enumerator has that ordinal (n is 0, negative, larger
\* than every ordinal, or in a gap between explicit ordinals).  Hence
\* TFromIndex(n).Index() is n or 0, and TFromIndex(e.Index()) = e for every
\* declared enumerator e.
C23_FromIndex ==
    [][ (Looked /\ res'.op = "FromIndex") =>
           LET n    == res'.n
               with == {b \in 1..Len(Ordinals) : Ordinals[b] = n}
           IN  /\ with # {} => \E b \in with : val' = typ.bindings[b].index
               /\ with = {} => val' = 0
               /\ Index(typ, val') \in {n, 0}
               /\ \A b \in 1..Len(typ.bindings) :
                     FromIndex(typ, Index(typ, typ.bindings[b].index))
                        = typ.bindings[b].index
      ]_vars

\* SizeFromIndex(3) was called on a variable that held Large: 3 lies between
\* the ordinals 2 and 4, and the variable now holds the zero enumerator.
C23_Witness ==
    /\ Looked
    /\ typ = Size
    /\ res.op = "FromIndex"
    /\ res.n = 3
    /\ val = 0

Tagged == SelectSeq(file.groups, LAMBDA g : g.tagged)

\* C26: for a file that parses, ConfigFromSource returns the no-config-comment
\* error and no Config when no comment group is tagged enumgen:type, and
\* otherwise a Config under the file's package name with one enumeration for
\* each tagged group, in file order, named by the text after the tag.
C26_NoCommentIsError ==
    (pc = "loaded" /\ file.parses) =>
        IF Len(Tagged) = 0
        THEN loaded.err.msg = "no config comment" /\ loaded.cfg = NoConfig
        ELSE /\ loaded.err = NoErr
             /\ loaded.cfg.Package = file.package
             /\ Len(loaded.cfg.Enum) = Len(Tagged)
             /\ \A k \in 1..Len(Tagged) : loaded.cfg.Enum[k].Type = Tagged[k].name

\* C25: when the command has exited, every failure of the run (a missing
\* flag, an error loading the configuration, creating the output, from
\* Generate, or closing the output) gave a non-zero exit status, the
\* diagnostic carries the error of the step that failed, and the output file
\* is not left open.
C25_FailuresReported ==
    cli.pc = "exit" =>
        /\ (cli.config = "" \/ cli.output = "") => (cli.exit # 0 /\ cli.diag.msg # "")
        /\ cli.err # NoErr => (cli.exit # 0 /\ cli.diag.cause = cli.err)
        /\ (cli.err = NoErr /\ cli.cerr # NoErr)
              => (cli.exit # 0 /\ cli.diag.cause = cli.cerr)
        /\ cli.f # "open"
        /\ (cli.config # "" /\ cli.output # "" /\ cli.err = NoErr /\ cli.cerr = NoErr)
              => cli.exit = 0

\* C27: a call of UnmarshalText that fails leaves the receiver at the zero
\* enumerator, whatever it held before the call; a call of Set that fails
\* leaves the receiver as it was.
C27_FailedDecodeResets ==
    [][ /\ (pc = "use" /\ res'.op = "UnmarshalText" /\ res'.err # NoErr) => val' = 0
        /\ (pc = "use" /\ res'.op = "Set" /\ res'.err # NoErr) => val' = val
      ]_vars

\* UnmarshalText("q") has failed on a variable of E3, which has the
\* enumerators X and Y: the variable holds the zero enumerator.
C27_Witness ==
    /\ pc = "use"
    /\ typ = E3
    /\ res.op = "UnmarshalText"
    /\ res.arg = "q"
    /\ res.err = E("invalid value for", 0, "E3", 0, "q", "")
    /\ val = 0

\* The identifiers the var block of the k-th type of the written unit binds.
Bound(k) == {out[1].decls[k].bindings[b].name : b \in 1..Len(out[1].decls[k].bindings)}

Needed(e) ==
    (IF e.FlagValue \/ e.TextMarshal THEN {"fmt"} ELSE {})
    \cup (IF e.Constructor \/ e.FlagValue THEN {"strings"} ELSE {})

\* C29: the written unit imports exactly the packages its functions use:
\* "fmt" if and only if a Set or UnmarshalText method is printed, "strings" if
\* and only if a constructor is printed.
C29_ImportsUsed ==
    Written =>
        {out[1].imports[n] : n \in 1..Len(out[1].imports)}
           = UNION {Needed(cfg.Enum[k]) : k \in 1..Len(cfg.Enum)}

\* C30: whatever calls of the constructor, Set, UnmarshalText and TFromIndex
\* were made on a variable of a type with N enumerators, with whatever
\* arguments and results, its stored index is within 0..N: String reads
\* inside the label table, and Valid holds exactly when the index is not 0.
C30_IndexInRange ==
    pc = "use" =>
        /\ val \in 0..NumEnumerators
        /\ val + 1 \in DOMAIN typ.labels
        /\ Valid(typ, val) <=> val # 0

\* E3FromIndex(50) was called on a variable of E3, after other calls: the
\* variable holds the zero enumerator, which is not valid.
C30_Witness ==
    /\ pc = "use"
    /\ typ = E3
    /\ res.op = "FromIndex"
    /\ res.n = 50
    /\ val = 0
    /\ ~Valid(typ, val)
    /\ String(typ, val) = "<invalid>"

====
